---- MODULE Spec2Model ----
(***************************************************************************)
(* Scoring engine of the resume / job-description matcher                 *)
(* (src/resume_parser.py): text normalisation, skill extraction, skill    *)
(* overlap score, TF-IDF cosine similarity and the weighted final score.  *)
(*                                                                         *)
(* A text is a sequence of characters; a character is a string token.     *)
(* Characters that cannot be written in an ASCII module carry a name:     *)
(* "TAB" "LF" "CR" (U+0009, U+000A, U+000D), "I_dot" (U+0130, LATIN       *)
(* CAPITAL LETTER I WITH DOT ABOVE) and "dot_above" (U+0307, COMBINING    *)
(* DOT ABOVE).  Scores are integers in hundredths of a percent point      *)
(* (66.67 is 6667); weights are integers in tenths (0.7 is 7).            *)
(***************************************************************************)
EXTENDS Integers, Sequences, FiniteSets, TLC

VARIABLES pc, op, args, ret

vars == <<pc, op, args, ret>>

(***************************************************************************)
(* Characters and the classes Python's re and str give them.              *)
(***************************************************************************)
AsciiLower == {"a", "b", "c", "d", "e", "f", "g", "h", "i", "j", "k", "l", "m", "n", "o", "p", "q", "r", "s", "t", "u", "v", "w", "x", "y", "z"}

AsciiUpper == {"A", "B", "C", "D", "E", "F", "G", "H", "I", "J", "K", "L", "M", "N", "O", "P", "Q", "R", "S", "T", "U", "V", "W", "X", "Y", "Z"}

Digits == {"0", "1", "2", "3", "4", "5", "6", "7", "8", "9"}

\* [A-Za-z] of tech_pattern: ASCII letters only
AsciiLetter == AsciiLower \cup AsciiUpper

\* \w of a str pattern: alphanumerics of any script and the underscore
WordChars == AsciiLetter \cup Digits \cup {"_", "I_dot"}

\* \s of a str pattern
SpaceChars == {" ", "TAB", "LF", "CR"}

\* every character of the model, in code point order (the order list.sort uses)
CharOrder == <<"TAB", "LF", "CR", " ", "#", "+", ",", "-", ".", "/", "0", "1", "2", "3", "4", "5", "6", "7", "8", "9", "A", "B", "C", "D", "E", "F", "G", "H", "I", "J", "K", "L", "M", "N", "O", "P", "Q", "R", "S", "T", "U", "V", "W", "X", "Y", "Z", "_", "a", "b", "c", "d", "e", "f", "g", "h", "i", "j", "k", "l", "m", "n", "o", "p", "q", "r", "s", "t", "u", "v", "w", "x", "y", "z", "I_dot", "dot_above">>

UpperLowerPairs == {<<"A", "a">>, <<"B", "b">>, <<"C", "c">>, <<"D", "d">>, <<"E", "e">>, <<"F", "f">>, <<"G", "g">>, <<"H", "h">>, <<"I", "i">>, <<"J", "j">>, <<"K", "k">>, <<"L", "l">>, <<"M", "m">>, <<"N", "n">>, <<"O", "o">>, <<"P", "p">>, <<"Q", "q">>, <<"R", "r">>, <<"S", "s">>, <<"T", "t">>, <<"U", "u">>, <<"V", "v">>, <<"W", "w">>, <<"X", "x">>, <<"Y", "y">>, <<"Z", "z">>}

\* str.lower() of one character; U+0130 lowers to the TWO characters "i" U+0307
LowerChar(c) ==
  IF c = "I_dot" THEN <<"i", "dot_above">>
  ELSE IF c \in AsciiUpper THEN <<(CHOOSE p \in UpperLowerPairs : p[1] = c)[2]>>
  ELSE <<c>>

RECURSIVE Lower(_)
\* str.lower()
Lower(t) == IF t = <<>> THEN <<>> ELSE LowerChar(Head(t)) \o Lower(Tail(t))

\* the value None
None == <<"<None>">>

\* Python truthiness of a text argument: None and "" are falsy, " " is truthy
Falsy(t) == t = None \/ t = <<>>

(***************************************************************************)
(* The skill dictionary.                                                   *)
(***************************************************************************)
COMMON_SKILLS ==
  [programming |->
   <<<<"p", "y", "t", "h", "o", "n">>,
      <<"j", "a", "v", "a">>,
      <<"j", "a", "v", "a", "s", "c", "r", "i", "p", "t">>,
      <<"c", "+", "+">>,
      <<"r", "u", "b", "y">>,
      <<"p", "h", "p">>,
      <<"s", "w", "i", "f", "t">>,
      <<"t", "y", "p", "e", "s", "c", "r", "i", "p", "t">>,
      <<"k", "o", "t", "l", "i", "n">>,
      <<"g", "o", "l", "a", "n", "g">>,
      <<"r", "u", "s", "t">>>>,
    web_dev |->
   <<<<"h", "t", "m", "l">>,
      <<"c", "s", "s">>,
      <<"r", "e", "a", "c", "t">>,
      <<"a", "n", "g", "u", "l", "a", "r">>,
      <<"v", "u", "e">>,
      <<"n", "o", "d", "e", ".", "j", "s">>,
      <<"d", "j", "a", "n", "g", "o">>,
      <<"f", "l", "a", "s", "k">>,
      <<"e", "x", "p", "r", "e", "s", "s">>,
      <<"b", "o", "o", "t", "s", "t", "r", "a", "p">>,
      <<"j", "q", "u", "e", "r", "y">>>>,
    databases |->
   <<<<"s", "q", "l">>,
      <<"m", "o", "n", "g", "o", "d", "b">>,
      <<"p", "o", "s", "t", "g", "r", "e", "s", "q", "l">>,
      <<"m", "y", "s", "q", "l">>,
      <<"o", "r", "a", "c", "l", "e">>,
      <<"r", "e", "d", "i", "s">>,
      <<"e", "l", "a", "s", "t", "i", "c", "s", "e", "a", "r", "c", "h">>,
      <<"d", "y", "n", "a", "m", "o", "d", "b">>,
      <<"f", "i", "r", "e", "b", "a", "s", "e">>>>,
    devops |->
   <<<<"a", "w", "s">>,
      <<"a", "z", "u", "r", "e">>,
      <<"g", "c", "p">>,
      <<"d", "o", "c", "k", "e", "r">>,
      <<"k", "u", "b", "e", "r", "n", "e", "t", "e", "s">>,
      <<"j", "e", "n", "k", "i", "n", "s">>,
      <<"t", "e", "r", "r", "a", "f", "o", "r", "m">>,
      <<"g", "i", "t">>,
      <<"c", "i", "/", "c", "d">>,
      <<"g", "i", "t", "h", "u", "b", " ", "a", "c", "t", "i", "o", "n", "s">>>>,
    data_science |->
   <<<<"m", "a", "c", "h", "i", "n", "e", " ", "l", "e", "a", "r", "n", "i", "n", "g">>,
      <<"d", "a", "t", "a", " ", "a", "n", "a", "l", "y", "s", "i", "s">>,
      <<"p", "a", "n", "d", "a", "s">>,
      <<"n", "u", "m", "p", "y">>,
      <<"s", "c", "i", "k", "i", "t", "-", "l", "e", "a", "r", "n">>,
      <<"t", "e", "n", "s", "o", "r", "f", "l", "o", "w">>,
      <<"p", "y", "t", "o", "r", "c", "h">>,
      <<"r">>,
      <<"t", "a", "b", "l", "e", "a", "u">>,
      <<"p", "o", "w", "e", "r", " ", "b", "i">>>>,
    soft_skills |->
   <<<<"t", "e", "a", "m", "w", "o", "r", "k">>,
      <<"l", "e", "a", "d", "e", "r", "s", "h", "i", "p">>,
      <<"c", "o", "m", "m", "u", "n", "i", "c", "a", "t", "i", "o", "n">>,
      <<"p", "r", "o", "b", "l", "e", "m", " ", "s", "o", "l", "v", "i", "n", "g">>,
      <<"c", "r", "i", "t", "i", "c", "a", "l", " ", "t", "h", "i", "n", "k", "i", "n", "g">>,
      <<"t", "i", "m", "e", " ", "m", "a", "n", "a", "g", "e", "m", "e", "n", "t">>>>]

\* the categories in the order the dict literal lists them
ALL_SKILLS ==
  COMMON_SKILLS.programming \o COMMON_SKILLS.web_dev \o COMMON_SKILLS.databases
    \o COMMON_SKILLS.devops \o COMMON_SKILLS.data_science \o COMMON_SKILLS.soft_skills

Range(s) == {s[i] : i \in 1..Len(s)}

(***************************************************************************)
(* preprocess_text                                                         *)
(***************************************************************************)
\* re.sub(r'[\n\t\r]', ' ', text)
sub_newlines(t) ==
  [i \in 1..Len(t) |-> IF t[i] \in {"LF", "TAB", "CR"} THEN " " ELSE t[i]]

RECURSIVE sub_space_runs(_)
\* re.sub(r'\s+', ' ', text): every maximal run of whitespace becomes one space
sub_space_runs(t) ==
  IF t = <<>> THEN <<>>
  ELSE IF Head(t) \in SpaceChars
    THEN IF Len(t) > 1 /\ t[2] \in SpaceChars
           THEN sub_space_runs(Tail(t))
           ELSE <<" ">> \o sub_space_runs(Tail(t))
    ELSE <<Head(t)>> \o sub_space_runs(Tail(t))

\* re.sub(r'[^\w\s\.\-]', ' ', text): one space per replaced character
sub_punct(t) ==
  [i \in 1..Len(t) |->
     IF t[i] \in WordChars \cup SpaceChars \cup {".", "-"} THEN t[i] ELSE " "]

RECURSIVE lstrip(_)
lstrip(t) ==
  IF t # <<>> /\ Head(t) \in SpaceChars THEN lstrip(Tail(t)) ELSE t

RECURSIVE rstrip(_)
rstrip(t) ==
  IF t # <<>> /\ t[Len(t)] \in SpaceChars
    THEN rstrip(SubSeq(t, 1, Len(t) - 1)) ELSE t

\* str.strip()
strip(t) == rstrip(lstrip(t))

\* the substitutions in the order the code applies them: whitespace runs are
\* collapsed BEFORE punctuation is turned into spaces
preprocess_text(text) ==
  IF Falsy(text) THEN <<>>
  ELSE strip(sub_punct(sub_space_runs(sub_newlines(text))))

(***************************************************************************)
(* Regular expression matching                                             *)
(***************************************************************************)
\* \b at position p of t (between t[p] and t[p+1], 0 <= p <= Len(t))
WordBoundary(t, p) ==
  (p >= 1 /\ t[p] \in WordChars) # (p < Len(t) /\ t[p + 1] \in WordChars)

\* re.search(r'\b' + re.escape(skill) + r'\b', t): the escaped skill is the
\* literal skill
re_search_skill(skill, t) ==
  \E p \in 0..(Len(t) - Len(skill)) :
     /\ WordBoundary(t, p)
     /\ SubSeq(t, p + 1, p + Len(skill)) = skill
     /\ WordBoundary(t, p + Len(skill))

\* [\w\+\#\.\-]
TechClass == WordChars \cup {"+", "#", ".", "-"}

RECURSIVE ClassRun(_, _)
\* how many characters of TechClass follow from index j on
ClassRun(t, j) ==
  IF j <= Len(t) /\ t[j] \in TechClass THEN 1 + ClassRun(t, j + 1) ELSE 0

\* where a match of tech_pattern that starts at index i ends (0: no match at
\* i): {2,} is greedy and backs off to the last position where \b holds
TechMatchEnd(t, i) ==
  IF WordBoundary(t, i - 1) /\ t[i] \in AsciiLetter
    THEN LET ends == {e \in (i + 2)..(i + ClassRun(t, i + 1)) : WordBoundary(t, e)}
         IN IF ends = {} THEN 0 ELSE CHOOSE e \in ends : \A f \in ends : f <= e
    ELSE 0

RECURSIVE findall_tech(_, _)
\* re.findall(tech_pattern, t) from index i on: leftmost, non-overlapping
findall_tech(t, i) ==
  IF i > Len(t) THEN <<>>
  ELSE LET e == TechMatchEnd(t, i)
       IN IF e > 0 THEN <<SubSeq(t, i, e)>> \o findall_tech(t, e + 1)
          ELSE findall_tech(t, i + 1)

\* str.isdigit()
isdigit(t) == t # <<>> /\ \A i \in 1..Len(t) : t[i] \in Digits

\* the list in the condition of extract_skills
TechStopwords ==
  {<<"t", "h", "e">>, <<"a", "n", "d">>, <<"f", "o", "r">>, <<"w", "i", "t", "h">>,
   <<"t", "h", "a", "t">>, <<"h", "a", "v", "e">>, <<"t", "h", "i", "s">>}

(***************************************************************************)
(* list.sort() on strings: code point order                                *)
(***************************************************************************)
Code(c) == CHOOSE i \in 1..Len(CharOrder) : CharOrder[i] = c

RECURSIVE StrLeq(_, _)
StrLeq(a, b) ==
  IF a = <<>> THEN TRUE
  ELSE IF b = <<>> THEN FALSE
  ELSE IF Head(a) = Head(b) THEN StrLeq(Tail(a), Tail(b))
  ELSE Code(Head(a)) < Code(Head(b))

RECURSIVE sorted(_)
\* list(S) followed by .sort()
sorted(S) ==
  IF S = {} THEN <<>>
  ELSE LET m == CHOOSE x \in S : \A y \in S : StrLeq(x, y)
       IN <<m>> \o sorted(S \ {m})

(***************************************************************************)
(* ResumeParser                                                            *)
(***************************************************************************)
\* extract_skills adding the technical tokens as they are written, without
\* .lower()
extract_skills_keeps_case(raw_text) ==
  LET text == preprocess_text(raw_text) IN
  IF text = <<>> THEN <<>>
  ELSE LET text_lower == Lower(text)
           dict_hits == {skill \in Range(ALL_SKILLS) :
                           re_search_skill(Lower(skill), text_lower)}
           tech_hits == {x \in Range(findall_tech(text, 1)) :
                             /\ Len(x) > 2
                             /\ Lower(x) \notin TechStopwords
                             /\ ~isdigit(x)}
       IN sorted(dict_hits \cup tech_hits)

\* extract_skills without the technical-token scan
extract_skills_dictionary_only(raw_text) ==
  LET text == preprocess_text(raw_text) IN
  IF text = <<>> THEN <<>>
  ELSE sorted({skill \in Range(ALL_SKILLS) :
                 re_search_skill(Lower(skill), Lower(text))})

\* ResumeParser(text).extract_skills(): __init__ normalises the text
extract_skills(raw_text) ==
  LET text == preprocess_text(raw_text) IN
  IF text = <<>> THEN <<>>
  ELSE LET text_lower == Lower(text)
           dict_hits == {skill \in Range(ALL_SKILLS) :
                           re_search_skill(Lower(skill), text_lower)}
           tech_matches == findall_tech(text, 1)
           tech_hits == {Lower(m) : m \in {x \in Range(tech_matches) :
                             /\ Len(x) > 2
                             /\ Lower(x) \notin TechStopwords
                             /\ ~isdigit(x)}}
       IN sorted(dict_hits \cup tech_hits)

(***************************************************************************)
(* score_resume_by_skills                                                  *)
(***************************************************************************)
\* round(num / den, 0) to the nearest integer, ties to even
RoundHalfEven(num, den) ==
  LET q == num \div den
      r == num % den
  IN IF 2 * r < den THEN q
     ELSE IF 2 * r > den THEN q + 1
     ELSE IF q % 2 = 0 THEN q ELSE q + 1

\* score_resume_by_skills dividing by len(job_skills_lower), duplicates counted
score_resume_by_skills_counts_duplicates(resume_text, job_skills) ==
  IF job_skills = <<>> THEN [score |-> 0, matched |-> {}]
  ELSE LET job_skills_lower == [i \in 1..Len(job_skills) |-> Lower(job_skills[i])]
           resume_lower == Lower(preprocess_text(resume_text))
           matched_skills == {job_skills_lower[i] : i \in
                                {j \in 1..Len(job_skills_lower) :
                                   re_search_skill(job_skills_lower[j], resume_lower)}}
       IN [score |-> RoundHalfEven(Cardinality(matched_skills) * 10000,
                                   Len(job_skills_lower)),
           matched |-> matched_skills]

\* returns [score, matched]; score in hundredths
score_resume_by_skills(resume_text, job_skills) ==
  IF job_skills = <<>> THEN [score |-> 0, matched |-> {}]
  ELSE LET job_skills_lower == [i \in 1..Len(job_skills) |-> Lower(job_skills[i])]
           resume_lower == Lower(preprocess_text(resume_text))
           matched_skills == {job_skills_lower[i] : i \in
                                {j \in 1..Len(job_skills_lower) :
                                   re_search_skill(job_skills_lower[j], resume_lower)}}
       IN [score |-> RoundHalfEven(Cardinality(matched_skills) * 10000,
                                   Cardinality(Range(job_skills_lower))),
           matched |-> matched_skills]

(***************************************************************************)
(* score_resume_by_text_similarity                                         *)
(* TfidfVectorizer(stop_words='english', ngram_range=(1, 2)) with the      *)
(* defaults lowercase=True, token_pattern=r"(?u)\b\w\w+\b",                *)
(* smooth_idf=True, norm='l2'.                                             *)
(***************************************************************************)
RECURSIVE WordRun(_, _)
\* how many word characters follow from index j on
WordRun(t, j) ==
  IF j <= Len(t) /\ t[j] \in WordChars THEN 1 + WordRun(t, j + 1) ELSE 0

RECURSIVE findall_tokens(_, _)
\* re.findall(r"\b\w\w+\b", t) from index i on: the maximal runs of two or
\* more word characters
findall_tokens(t, i) ==
  IF i > Len(t) THEN <<>>
  ELSE LET n == WordRun(t, i)
       IN IF n >= 2 /\ WordBoundary(t, i - 1)
            THEN <<SubSeq(t, i, i + n - 1)>> \o findall_tokens(t, i + n)
            ELSE findall_tokens(t, i + 1)

\* the words of the vectorizer's English stop word list that are made of
\* two or more characters and can occur in the texts of this model
ENGLISH_STOP_WORDS ==
  {<<"a", "n", "d">>, <<"t", "h", "e">>, <<"f", "o", "r">>, <<"i", "n">>,
   <<"w", "i", "t", "h">>, <<"t", "h", "a", "t">>, <<"h", "a", "v", "e">>,
   <<"t", "h", "i", "s">>, <<"o", "f">>, <<"t", "o">>, <<"i", "s">>}

\* the analyzer without stop_words='english'
analyze_keeps_stop_words(doc) ==
  LET tokens == findall_tokens(Lower(doc), 1)
  IN [i \in 1..Len(tokens) |-> <<tokens[i]>>]
       \o [i \in 1..(Len(tokens) - 1) |-> <<tokens[i], tokens[i + 1]>>]

\* the analyzer: lowercase, tokenize, drop stop words, then unigrams followed
\* by the bigrams of neighbouring remaining tokens
analyze(doc) ==
  LET tokens == SelectSeq(findall_tokens(Lower(doc), 1),
                          LAMBDA w : w \notin ENGLISH_STOP_WORDS)
  IN [i \in 1..Len(tokens) |-> <<tokens[i]>>]
       \o [i \in 1..(Len(tokens) - 1) |-> <<tokens[i], tokens[i + 1]>>]

\* term frequency of n-gram g in the analyzed document
tf(g, grams) == Cardinality({i \in 1..Len(grams) : grams[i] = g})

RECURSIVE DotOver(_, _, _)
\* the sum over the n-grams g of S of tf(g, ga) * tf(g, gb)
DotOver(S, ga, gb) ==
  IF S = {} THEN 0
  ELSE LET g == CHOOSE y \in S : TRUE
       IN tf(g, ga) * tf(g, gb) + DotOver(S \ {g}, ga, gb)

RECURSIVE IsqrtIn(_, _, _)
\* the largest r in lo..hi with r * r <= n
IsqrtIn(n, lo, hi) ==
  IF lo >= hi THEN lo
  ELSE LET mid == (lo + hi + 1) \div 2
       IN IF mid * mid <= n THEN IsqrtIn(n, mid, hi) ELSE IsqrtIn(n, lo, mid - 1)

\* fixed point scale of the squared idf weights
IdfScale == 1000

\* idf^2 of an n-gram of both documents: (ln(3/3) + 1)^2 = 1
IdfBothSq == 1000

\* idf^2 of an n-gram of one document only: (ln(3/2) + 1)^2 = 1.9753...
IdfOneSq == 1975




\* fit_transform on the two documents followed by cosine_similarity and
\* round(similarity * 100, 2).  An empty vocabulary raises ValueError.
\* The value is in hundredths and, because idf^2 is kept to three decimals
\* and the root to an integer, approximates the float result; it is exact
\* where the cosine is 0 or 1.
tfidf_cosine(doc_a, doc_b) ==
  LET ga == analyze(doc_a)
      gb == analyze(doc_b)
      both == Range(ga) \cap Range(gb)
      only_a == Range(ga) \ Range(gb)
      only_b == Range(gb) \ Range(ga)
      dot == DotOver(both, ga, gb)
      norm_a == IdfBothSq * DotOver(both, ga, ga) + IdfOneSq * DotOver(only_a, ga, ga)
      norm_b == IdfBothSq * DotOver(both, gb, gb) + IdfOneSq * DotOver(only_b, gb, gb)
  IN IF Range(ga) \cup Range(gb) = {} THEN [exc |-> "ValueError", val |-> 0]
     ELSE IF dot = 0 THEN [exc |-> "none", val |-> 0]
     ELSE [exc |-> "none",
           val |-> RoundHalfEven(dot * IdfScale * 10000,
                                 IsqrtIn(norm_a * norm_b, 0, 46340))]

\* score_resume_by_text_similarity without the try / except
score_resume_by_text_similarity_no_except(resume_text, job_description_text) ==
  IF Falsy(resume_text) \/ Falsy(job_description_text)
    THEN [exc |-> "none", val |-> 0]
    ELSE tfidf_cosine(preprocess_text(resume_text),
                      preprocess_text(job_description_text))

\* returns [exc, val]: exc is the exception that leaves the call ("none" when
\* it returns), val the score in hundredths
score_resume_by_text_similarity(resume_text, job_description_text) ==
  IF Falsy(resume_text) \/ Falsy(job_description_text)
    THEN [exc |-> "none", val |-> 0]
    ELSE LET r == tfidf_cosine(preprocess_text(resume_text),
                               preprocess_text(job_description_text))
         IN IF r.exc # "none"
              THEN [exc |-> "none", val |-> 0]      \* except Exception: return 0.0
              ELSE r

(***************************************************************************)
(* calculate_final_resume_score                                            *)
(***************************************************************************)
\* the final score with the two weights swapped
round_final_swapped_weights(skill_score, text_score, skill_weight, text_weight) ==
  LET num == skill_score * text_weight + text_score * skill_weight
      q == num \div 10
      r == num % 10
  IN IF r < 5 THEN {q} ELSE IF r > 5 THEN {q + 1} ELSE {q, q + 1}

\* round(x, 2) of the float x = (skill_score * skill_weight) + (text_score *
\* text_weight), as the set of results the float arithmetic can give: num / 10
\* is x in hundredths; where x lies exactly between two hundredths the
\* binary representation decides the side
round_final(skill_score, text_score, skill_weight, text_weight) ==
  LET num == skill_score * skill_weight + text_score * text_weight
      q == num \div 10
      r == num % 10
  IN IF r < 5 THEN {q} ELSE IF r > 5 THEN {q + 1} ELSE {q, q + 1}

\* the bundles a call can return
calculate_final_resume_score(resume_text, job_description_text, skill_weight, text_weight) ==
  IF Falsy(resume_text) \/ Falsy(job_description_text)
    THEN {[exc |-> "none", skill_score |-> 0, text_score |-> 0, final_score |-> 0,
           matched_skills |-> {}, job_skills |-> <<>>, resume_skills |-> <<>>]}
    ELSE LET job_skills == extract_skills(job_description_text)
             resume_skills == extract_skills(resume_text)
             s == score_resume_by_skills(resume_text, job_skills)
             sim == score_resume_by_text_similarity(resume_text, job_description_text)
         IN IF sim.exc # "none" THEN {[exc |-> sim.exc]}
            ELSE {[exc |-> "none", skill_score |-> s.score, text_score |-> sim.val,
                   final_score |-> f, matched_skills |-> s.matched,
                   job_skills |-> job_skills, resume_skills |-> resume_skills] :
                    f \in round_final(s.score, sim.val, skill_weight, text_weight)}
(***************************************************************************)
(* Inputs of the calls.                                                    *)
(***************************************************************************)
\* 'Built dashboards using Python and Pandas for data analysis': the resume of the end-to-end scenario
ResumeExample ==
  <<"B", "u", "i", "l", "t", " ", "d", "a", "s", "h", "b", "o", "a", "r", 
    "d", "s", " ", "u", "s", "i", "n", "g", " ", "P", "y", "t", "h", "o", 
    "n", " ", "a", "n", "d", " ", "P", "a", "n", "d", "a", "s", " ", "f", 
    "o", "r", " ", "d", "a", "t", "a", " ", "a", "n", "a", "l", "y", "s", 
    "i", "s">>

\* 'Looking for a candidate skilled in Python, Pandas, and SQL': the job description of the end-to-end scenario
JobExample ==
  <<"L", "o", "o", "k", "i", "n", "g", " ", "f", "o", "r", " ", "a", " ", 
    "c", "a", "n", "d", "i", "d", "a", "t", "e", " ", "s", "k", "i", "l", 
    "l", "e", "d", " ", "i", "n", " ", "P", "y", "t", "h", "o", "n", ",", 
    " ", "P", "a", "n", "d", "a", "s", ",", " ", "a", "n", "d", " ", "S", 
    "Q", "L">>

\* 'I use Python and SQL daily'
SkillsResume ==
  <<"I", " ", "u", "s", "e", " ", "P", "y", "t", "h", "o", "n", " ", "a", 
    "n", "d", " ", "S", "Q", "L", " ", "d", "a", "i", "l", "y">>

\* 'I know Python and React and Docker'
KnowResume ==
  <<"I", " ", "k", "n", "o", "w", " ", "P", "y", "t", "h", "o", "n", " ", 
    "a", "n", "d", " ", "R", "e", "a", "c", "t", " ", "a", "n", "d", " ", 
    "D", "o", "c", "k", "e", "r">>

\* 'Python dev'
DevJob ==
  <<"P", "y", "t", "h", "o", "n", " ", "d", "e", "v">>

\* 'javascriptx'
JavascriptX ==
  <<"j", "a", "v", "a", "s", "c", "r", "i", "p", "t", "x">>

\* 'I know C++ and CI/CD'
CppLine ==
  <<"I", " ", "k", "n", "o", "w", " ", "C", "+", "+", " ", "a", "n", "d", 
    " ", "C", "I", "/", "C", "D">>

\* 'a, b'
CommaText ==
  <<"a", ",", " ", "b">>

\* ' ': whitespace only
BlankText ==
  <<" ">>

\* '\n\t '
BlankLines ==
  <<"LF", "TAB", " ">>

\* 'and the': stop words only
StopOnly ==
  <<"a", "n", "d", " ", "t", "h", "e">>

\* 'x': a single one-character token
OneChar ==
  <<"x">>

\* 'Use C++x, Node.js and abc#.': technical tokens with '+', '.', '#'
TechLine ==
  <<"U", "s", "e", " ", "C", "+", "+", "x", ",", " ", "N", "o", "d", "e",
    ".", "j", "s", " ", "a", "n", "d", " ", "a", "b", "c", "#", ".">>

Corpus ==
  {ResumeExample, JobExample, SkillsResume, KnowResume, DevJob, JavascriptX,
   CppLine, CommaText, BlankText, BlankLines, StopOnly, OneChar, TechLine}

\* str.upper() of ASCII text, to write a dictionary term in capitals
Upper(t) ==
  [i \in 1..Len(t) |->
     IF t[i] \in AsciiLower THEN (CHOOSE p \in UpperLowerPairs : p[2] = t[i])[1]
     ELSE t[i]]

RECURSIVE Concat(_)
\* the pieces of a sequence of texts joined
Concat(ps) == IF ps = <<>> THEN <<>> ELSE Head(ps) \o Concat(Tail(ps))

\* every sequence of at most n elements of S
SeqsUpTo(S, n) == UNION {[1..k -> S] : k \in 0..n}

\* texts are put together from at most MaxPieces of these pieces
MaxPieces == 3

Pieces ==
  {<<"J", "a", "v", "a">>, <<"x">>, <<"I_dot">>, <<" ">>, <<",">>, <<".">>}

\* a dictionary term, in lower case and in capitals, alone, between words
\* and between line breaks
DictTexts ==
  UNION {{d, <<"x", " ">> \o d \o <<" ", "y">>, <<"LF">> \o d \o <<"TAB">>} :
           d \in Range(ALL_SKILLS) \cup {Upper(s) : s \in Range(ALL_SKILLS)}}

\* a dictionary term inside a longer run of word characters
InsideTexts ==
  UNION {{d \o <<"x">>, <<"x">> \o d, <<"I_dot">> \o d, <<"x", " ", "_">> \o d} :
           d \in Range(ALL_SKILLS)}

\* the texts handed to the calls of one text
UnaryTexts ==
  {Concat(ps) : ps \in SeqsUpTo(Pieces, MaxPieces)}
    \cup Corpus \cup DictTexts \cup InsideTexts \cup {None}

\* the pairs of texts are put together from at most MaxPairPieces of these
MaxPairPieces == 2

PairPieces ==
  {<<"P", "y", "t", "h", "o", "n">>, <<"a", "n", "d">>, <<" ">>}

PairTexts ==
  {Concat(ps) : ps \in SeqsUpTo(PairPieces, MaxPairPieces)} \cup Corpus \cup {None}

\* required skill lists hold at most MaxSkills of these entries
MaxSkills == 2

SkillPool ==
  {<<"p", "y", "t", "h", "o", "n">>, <<"P", "y", "t", "h", "o", "n">>,
   <<"j", "a", "v", "a">>, <<"s", "q", "l">>}

SkillLists == SeqsUpTo(SkillPool, MaxSkills)

\* <<skill_weight, text_weight>> in tenths; the slider of main() gives 0..10
WeightPairs == {<<7, 3>>, <<5, 5>>, <<10, 0>>, <<10, 10>>}

(***************************************************************************)
(* The calls.  Every function of the engine is pure: a call takes its     *)
(* arguments, computes, and leaves its result; nothing is kept between    *)
(* calls.                                                                  *)
(***************************************************************************)
NoCall == [exc |-> "none"]

Init ==
  /\ pc = "idle"
  /\ op = "none"
  /\ args = <<>>
  /\ ret = NoCall

Call_preprocess_text ==
  /\ pc = "idle"
  /\ \E t \in UnaryTexts :
       /\ args' = <<t>>
       /\ ret' = [exc |-> "none", val |-> preprocess_text(t)]
  /\ op' = "preprocess_text"
  /\ pc' = "done"

Call_extract_skills ==
  /\ pc = "idle"
  /\ \E t \in UnaryTexts :
       /\ args' = <<t>>
       /\ ret' = [exc |-> "none", val |-> extract_skills(t)]
  /\ op' = "extract_skills"
  /\ pc' = "done"

Call_score_resume_by_skills ==
  /\ pc = "idle"
  /\ \E t \in PairTexts, js \in SkillLists :
       /\ args' = <<t, js>>
       /\ ret' = [exc |-> "none", val |-> score_resume_by_skills(t, js)]
  /\ op' = "score_resume_by_skills"
  /\ pc' = "done"

Call_score_resume_by_text_similarity ==
  /\ pc = "idle"
  /\ \E r \in PairTexts, j \in PairTexts :
       /\ args' = <<r, j>>
       /\ ret' = score_resume_by_text_similarity(r, j)
  /\ op' = "score_resume_by_text_similarity"
  /\ pc' = "done"

Call_calculate_final_resume_score ==
  /\ pc = "idle"
  /\ \E r \in PairTexts, j \in PairTexts, w \in WeightPairs :
       /\ args' = <<r, j, w[1], w[2]>>
       /\ ret' \in calculate_final_resume_score(r, j, w[1], w[2])
  /\ op' = "calculate_final_resume_score"
  /\ pc' = "done"

\* the caller has taken the result
Return ==
  /\ pc = "done"
  /\ pc' = "idle"
  /\ op' = "none"
  /\ args' = <<>>
  /\ ret' = NoCall

Next ==
  \/ Call_preprocess_text
  \/ Call_extract_skills
  \/ Call_score_resume_by_skills
  \/ Call_score_resume_by_text_similarity
  \/ Call_calculate_final_resume_score
  \/ Return

Spec == Init /\ [][Next]_vars

(***************************************************************************)
(* Properties                                                              *)
(***************************************************************************)
Returned(f) == pc = "done" /\ op = f

Sk_python == <<"p", "y", "t", "h", "o", "n">>

Sk_pandas == <<"p", "a", "n", "d", "a", "s">>

Sk_sql == <<"s", "q", "l">>

Sk_java == <<"j", "a", "v", "a">>

\* a text that is None, empty or made of whitespace only
IsBlank(t) == Falsy(t) \/ \A i \in 1..Len(t) : t[i] \in SpaceChars

\* C1: preprocess_text is idempotent: normalising the result of
\* preprocess_text(t) again gives the same text, for every t.
C1_PreprocessIdempotent ==
  Returned("preprocess_text") => preprocess_text(ret.val) = ret.val

\* C2: whenever calculate_final_resume_score is called with non-empty resume
\* and job texts, it returns a bundle in which every matched skill is one of
\* the job skills.
C2_MatchedSubsetOfJobSkills ==
  (Returned("calculate_final_resume_score") /\ ~Falsy(args[1]) /\ ~Falsy(args[2]))
    => /\ ret.exc = "none"
       /\ ret.matched_skills \subseteq Range(ret.job_skills)

\* C2 witness: a call that matched some but not all of the job skills
C2_Witness ==
  /\ Returned("calculate_final_resume_score")
  /\ ~Falsy(args[1]) /\ ~Falsy(args[2])
  /\ ret.matched_skills # {}
  /\ ret.matched_skills # Range(ret.job_skills)

\* C3, as stated: for the resume and the job description of the end-to-end
\* scenario the job skills include python, pandas and sql, the matched skills
\* are exactly {python, pandas} and the skill match score is 66.67.
C3_ScenarioAsStated ==
  (Returned("calculate_final_resume_score")
     /\ args[1] = ResumeExample /\ args[2] = JobExample)
    => /\ {Sk_python, Sk_pandas, Sk_sql} \subseteq Range(ret.job_skills)
       /\ ret.matched_skills = {Sk_python, Sk_pandas}
       /\ ret.skill_score = 6667

\* C3, amended: in the scenario the job skills are candidate, looking, pandas,
\* python, skilled and sql (the technical-token scan adds three words to the
\* three dictionary terms), the matched skills are exactly {python, pandas},
\* and the skill match score is 2 of 6, 33.33.
C3_ScenarioAmended ==
  (Returned("calculate_final_resume_score")
     /\ args[1] = ResumeExample /\ args[2] = JobExample)
    => /\ ret.job_skills = <<<<"c", "a", "n", "d", "i", "d", "a", "t", "e">>,
                             <<"l", "o", "o", "k", "i", "n", "g">>,
                             Sk_pandas, Sk_python,
                             <<"s", "k", "i", "l", "l", "e", "d">>, Sk_sql>>
       /\ ret.matched_skills = {Sk_python, Sk_pandas}
       /\ ret.skill_score = 3333

\* C3 witness: the scenario has been scored
C3_Witness ==
  /\ Returned("calculate_final_resume_score")
  /\ args[1] = ResumeExample /\ args[2] = JobExample
  /\ ret.exc = "none"

\* C4: if the resume text or the job text handed to
\* calculate_final_resume_score is empty, None or blank (whitespace only), the
\* bundle has all three scores 0.0 and matched, job and resume skills empty.
C4_BlankInputGivesZeroBundle ==
  (Returned("calculate_final_resume_score") /\ (IsBlank(args[1]) \/ IsBlank(args[2])))
    => ret = [exc |-> "none", skill_score |-> 0, text_score |-> 0, final_score |-> 0,
              matched_skills |-> {}, job_skills |-> <<>>, resume_skills |-> <<>>]

\* C5: score_resume_by_skills returns, for a non-empty list of required
\* skills, the matched set made of exactly the lowercased required skills
\* that the word-boundary test finds in the lowercased normalised resume, and
\* the score 100 * |matched| / |distinct lowercased required skills| rounded
\* to 2 decimals (at most half a hundredth from the quotient); ("I use Python
\* and SQL daily", [python, java]) gives (50.0, {python}); an empty list
\* gives (0.0, {}).
C5_SkillScoreIsPercentageOfDistinct ==
  Returned("score_resume_by_skills") =>
    LET required == {Lower(args[2][i]) : i \in 1..Len(args[2])}
        found == {s \in required : re_search_skill(s, Lower(preprocess_text(args[1])))}
        n == Cardinality(required)
        d == ret.val.score * n - 10000 * Cardinality(found)
    IN /\ ret.val.matched = found
       /\ args[2] = <<>> => ret.val.score = 0
       /\ args[2] # <<>> => (2 * d <= n /\ -2 * d <= n)
       /\ (args[1] = SkillsResume /\ args[2] = <<Sk_python, Sk_java>>)
            => ret.val = [score |-> 5000, matched |-> {Sk_python}]

\* C5 witness: a required list whose two entries differ only in case and
\* are found in the resume
C5_Witness ==
  /\ Returned("score_resume_by_skills")
  /\ Len(args[2]) = 2
  /\ Cardinality({Lower(args[2][i]) : i \in 1..Len(args[2])}) = 1
  /\ ret.val.score = 10000

\* the maximal runs of word characters of t
WordRuns(t) ==
  {SubSeq(t, i, j) : <<i, j>> \in
     {y \in (1..Len(t)) \X (1..Len(t)) :
        /\ y[1] <= y[2]
        /\ \A k \in y[1]..y[2] : t[k] \in WordChars
        /\ y[1] = 1 \/ t[y[1] - 1] \notin WordChars
        /\ y[2] = Len(t) \/ t[y[2] + 1] \notin WordChars}}

\* the lowercased text holds a run of two or more word characters that is not
\* an English stop word
HasTerm(t) ==
  \E w \in WordRuns(Lower(t)) : Len(w) >= 2 /\ w \notin ENGLISH_STOP_WORDS

\* the two documents leave the vectorizer no term
NoTerms(a, b) == ~HasTerm(a) /\ ~HasTerm(b)

\* C6, as stated: for weights each in [0, 1] that sum to 1 the three scores
\* of calculate_final_resume_score lie in [0, 100] and the final score is
\* skill_score * skill_weight + text_score * text_weight rounded to 2
\* decimals, so that skill 50.0 and text 80.0 under 0.7 / 0.3 give 65.0; a
\* final score above 100 needs weights that sum to more than 1.
C6_WeightedScoreAsStated ==
  (Returned("calculate_final_resume_score") /\ ~Falsy(args[1]) /\ ~Falsy(args[2]))
    => LET exact10 == ret.skill_score * args[3] + ret.text_score * args[4]
       IN /\ ret.exc = "none"
          /\ (args[3] \in 0..10 /\ args[4] \in 0..10 /\ args[3] + args[4] = 10)
               => /\ ret.skill_score \in 0..10000
                  /\ ret.text_score \in 0..10000
                  /\ ret.final_score \in 0..10000
          /\ 10 * ret.final_score - exact10 \in -5..5
          /\ ret.final_score > 10000 => args[3] + args[4] > 10
          /\ round_final(5000, 8000, 7, 3) = {6500}

\* C6, amended: the same, except that skill 50.0 and text 80.0 under
\* 0.7 / 0.3 give 0.7 * 50 + 0.3 * 80 = 59.0; and a final score above 100 does
\* occur: "Python dev" against itself under weights 1.0 / 1.0 gives 200.0.
C6_WeightedScoreAmended ==
  (Returned("calculate_final_resume_score") /\ ~Falsy(args[1]) /\ ~Falsy(args[2]))
    => LET exact10 == ret.skill_score * args[3] + ret.text_score * args[4]
       IN /\ ret.exc = "none"
          /\ (args[3] \in 0..10 /\ args[4] \in 0..10 /\ args[3] + args[4] = 10)
               => /\ ret.skill_score \in 0..10000
                  /\ ret.text_score \in 0..10000
                  /\ ret.final_score \in 0..10000
          /\ 10 * ret.final_score - exact10 \in -5..5
          /\ ret.final_score > 10000 => args[3] + args[4] > 10
          /\ round_final(5000, 8000, 7, 3) = {5900}
          /\ (args = <<DevJob, DevJob, 10, 10>>) => ret.final_score = 20000

\* C6 witness: weights 0.7 / 0.3 applied to two different positive scores
C6_Witness ==
  /\ Returned("calculate_final_resume_score")
  /\ args[3] = 7 /\ args[4] = 3
  /\ ret.skill_score > 0 /\ ret.text_score > 0
  /\ ret.skill_score # ret.text_score

\* C7, as stated: score_resume_by_text_similarity(x, x) is near 100.0 (here:
\* at least 99.0) for every non-empty text x, and
\* score_resume_by_text_similarity("", y) is 0.0 for every y.
C7_SelfSimilarityAsStated ==
  Returned("score_resume_by_text_similarity")
    => /\ ret.exc = "none"
       /\ (args[1] = args[2] /\ ~Falsy(args[1])) => ret.val >= 9900
       /\ args[1] = <<>> => ret.val = 0

\* C7, amended: score_resume_by_text_similarity(x, x) is 100.0 for every text
\* x that holds a run of two or more word characters that is not an English
\* stop word, and 0.0 for every other non-empty x (a single one-character
\* token, stop words only, whitespace only);
\* score_resume_by_text_similarity("", y) is 0.0 for every y.
C7_SelfSimilarityAmended ==
  Returned("score_resume_by_text_similarity")
    => /\ ret.exc = "none"
       /\ (args[1] = args[2] /\ ~Falsy(args[1]))
            => ret.val = IF NoTerms(args[1], args[1]) THEN 0 ELSE 10000
       /\ args[1] = <<>> => ret.val = 0

\* C7 witness: a text with a term has been compared with itself
C7_Witness ==
  /\ Returned("score_resume_by_text_similarity")
  /\ args[1] = args[2] /\ ~Falsy(args[1])
  /\ ret.val = 10000

\* C8: score_resume_by_text_similarity lets no exception out: where the
\* vectorizer fails (the two texts leave it an empty vocabulary) the call
\* returns 0.0, and calculate_final_resume_score then still returns a complete
\* bundle whose text similarity score is 0.0.
C8_SimilarityNeverRaises ==
  /\ Returned("score_resume_by_text_similarity")
       => /\ ret.exc = "none"
          /\ NoTerms(args[1], args[2]) => ret.val = 0
  /\ Returned("calculate_final_resume_score")
       => /\ ret.exc = "none"
          /\ DOMAIN ret = {"exc", "skill_score", "text_score", "final_score",
                           "matched_skills", "job_skills", "resume_skills"}
          /\ NoTerms(args[1], args[2]) => ret.text_score = 0

\* C8 witness: the aggregate was called with two non-empty texts made of stop
\* words only
C8_Witness ==
  /\ Returned("calculate_final_resume_score")
  /\ args[1] = StopOnly /\ args[2] = StopOnly
  /\ ret.exc = "none" /\ ret.text_score = 0

\* where skill d occurs in text t, whatever the letter case
Occurrences(d, t) ==
  IF t = None THEN {}
  ELSE {p \in 0..(Len(t) - Len(d)) :
          \A i \in 1..Len(d) : LowerChar(t[p + i]) = <<d[i]>>}

\* d occurs in t, and every occurrence touches a word character: d is only
\* ever part of a longer run of word characters
OnlyInsideLongerWord(d, t) ==
  /\ Occurrences(d, t) # {}
  /\ \A p \in Occurrences(d, t) :
       \/ p >= 1 /\ t[p] \in WordChars
       \/ p + Len(d) < Len(t) /\ t[p + Len(d) + 1] \in WordChars

\* d occurs in t between whitespace or the ends of the text
OccursDelimited(d, t) ==
  \E p \in Occurrences(d, t) :
     /\ p = 0 \/ t[p] \in SpaceChars
     /\ p + Len(d) = Len(t) \/ t[p + Len(d) + 1] \in SpaceChars

\* C9: dictionary terms are matched as whole tokens only: a term that occurs
\* in the text only inside a longer run of word characters is not among the
\* skills extract_skills returns.
C9_NoSubstringMatch ==
  Returned("extract_skills")
    => \A d \in Range(ALL_SKILLS) :
         OnlyInsideLongerWord(d, args[1]) => d \notin Range(ret.val)

\* C10: dictionary extraction is complete: every term of ALL_SKILLS that
\* occurs in the text, in any letter case, delimited by whitespace or the
\* ends of the text, is among the skills extract_skills returns.
C10_DictionaryComplete ==
  Returned("extract_skills")
    => \A d \in Range(ALL_SKILLS) :
         OccursDelimited(d, args[1]) => d \in Range(ret.val)

\* the maximal runs in t of word characters, '+', '#', '.' and '-' that hold
\* three or more characters and start with a letter
TechRuns(t) ==
  IF t = None THEN {}
  ELSE {SubSeq(t, y[1], y[2]) : y \in
          {z \in (1..Len(t)) \X (1..Len(t)) :
             /\ z[2] - z[1] >= 2
             /\ t[z[1]] \in AsciiLetter
             /\ \A k \in z[1]..z[2] : t[k] \in WordChars \cup {"+", "#", ".", "-"}
             /\ z[1] = 1 \/ t[z[1] - 1] \notin WordChars \cup {"+", "#", ".", "-"}
             /\ z[2] = Len(t) \/ t[z[2] + 1] \notin WordChars \cup {"+", "#", ".", "-"}}}

\* the words the technical-token scan leaves out
C11_Stopwords ==
  {<<"t", "h", "e">>, <<"a", "n", "d">>, <<"f", "o", "r">>, <<"w", "i", "t", "h">>,
   <<"t", "h", "a", "t">>, <<"h", "a", "v", "e">>, <<"t", "h", "i", "s">>}

\* C11: every run in the text of word characters, '+', '#', '.' and '-' that
\* is three or more characters long and starts with a letter is, lowercased
\* and in full, among the skills extract_skills returns, unless it is one of
\* the stop words the / and / for / with / that / have / this; and no
\* returned skill is one of these stop words.
C11_TechnicalTokensExtracted ==
  Returned("extract_skills")
    => /\ \A r \in TechRuns(args[1]) :
            Lower(r) \in C11_Stopwords \/ Lower(r) \in Range(ret.val)
       /\ \A i \in 1..Len(ret.val) : ret.val[i] \notin C11_Stopwords

====
